---- MODULE Spec2Model ----
(***************************************************************************)
(* State-machine model of the frame orchestrator of WGPU-Template:         *)
(* ProgramData::window_event, resize, redraw_requested (src/src/main.rs),  *)
(* render and its three passes (src/src/render.rs), FpsCounter             *)
(* (src/src/data.rs) and the initial surface configuration                 *)
(* (src/src/load/mod.rs).                                                  *)
(*                                                                         *)
(* The program is single threaded: winit dispatches one window event at a  *)
(* time, so a handler runs to completion before the next event.  The       *)
(* redraw handler is split into its steps (pc) so that the order of its    *)
(* effects is observable; every other handler is one action.               *)
(*                                                                         *)
(* Floating point literals are kept as strings ("1.0"), f32 aspect_ratio   *)
(* as the exact fraction <<width, height>>, Instant/Duration as ticks.     *)
(***************************************************************************)
EXTENDS Integers, Sequences, FiniteSets, TLC

\* ---------------------------------------------------------------- bounds
\* window dimensions range over 0..MaxDim
MaxDim == 2
\* the clock stops handing out new frames at MaxClock ticks
MaxClock == 4
\* update + recording + submission of one frame take 0..MaxWork ticks
MaxWork == 2
\* the example model has MaxMeshes meshes
MaxMeshes == 2
\* a frame time fed to the FPS counter on its own is 0..MaxFrameTime ticks
MaxFrameTime == 2
\* the FPS counter on its own is fed until MaxFpsClock ticks
MaxFpsClock == 7
\* the FPS counter on its own holds at most MaxSamples unreported samples
MaxSamples == 4
\* a configuration file differs from the default one in at most MaxChanged entries
MaxChanged == 2

\* ------------------------------------------------------ program constants
\* 2^16: a u32 is written as its two 16-bit halves
U16 == 65536
\* Duration::SECOND, in ticks
TicksPerSecond == 3
\* engine_config.min_frame_time, in ticks
MinFrameTime == 2
\* X_LEN * Z_LEN instances in each of the two layers of example instances
ExampleInstancesCount == 20000

VARIABLES
    config_file,          \* what is known of 'engine config.hjson' when it is loaded
    config_result,        \* what load_engine_config came to
    fps_samples,          \* the samples fps_counter has taken since its last report, the last included
    fps_output,           \* what the last fps_counter.step returned: <<>> or <<count, mean>>
    engine_config,        \* EngineConfig, resolved by load_engine_config
    render_layouts,       \* RenderLayouts: the bind group layouts and the three pipelines
    render_bindings,      \* RenderBindings: bind_0 and one bind_1 per mesh
    bindings_current,     \* render_bindings were created after the last replacement of an asset
    render_context,       \* RenderContextData: surface_size, aspect_ratio, surface_config, drawable_surface
    render_assets,        \* RenderAssets: depth, example_models
    fps_counter,          \* FpsCounter
    frame_start_instant,  \* ProgramData::frame_start_instant (= the frame's frame_start_time)
    now,                  \* Instant::now(), in ticks since FpsCounter::new
    redraw_pending,       \* window.request_redraw() was called and not yet served
    exit_requested,       \* event_loop.exit() was called
    panicked,             \* the process panicked (Result::expect on an Err)
    pc,                   \* position of the running handler; "idle" between events
    ret,                  \* Result returned by redraw_requested: Pending while running
    surface_output,       \* the frame's SurfaceTexture: "None", "Acquired", "Presented"
    command_queue,        \* command buffers submitted to the queue by the current handler
    log,                  \* effects of the current (or last) handler, in program order
    event                 \* the current (or last) window event and the sizes it found

vars == <<config_file, config_result, fps_samples, fps_output,
          engine_config, render_layouts, render_bindings, bindings_current,
          render_context, render_assets, fps_counter, frame_start_instant, now,
          redraw_pending, exit_requested, panicked, pc, ret, surface_output,
          command_queue, log, event>>

\* ------------------------------------------------------------- data types
Dim == 0..MaxDim

PhysicalSize(w, h) == [width |-> w, height |-> h]

Sizes == {PhysicalSize(w, h) : w \in Dim, h \in Dim}

IsZeroSize(size) == size.width = 0 \/ size.height = 0

NonZeroSizes == {s \in Sizes : ~IsZeroSize(s)}

NoSize == PhysicalSize(0, 0)

\* wgpu::SurfaceError plus the Ok case of get_current_texture
SurfaceResults == {"Ok", "Timeout", "Outdated", "Lost", "OutOfMemory"}

\* anyhow::Result of a fallible loader
Results == {"Ok", "Err"}

\* Result<()> of redraw_requested: Ok(()), Err(error), or not returned yet
Ok == [tag |-> "Ok", error |-> "None"]

Err(error) == [tag |-> "Err", error |-> error]

Pending == [tag |-> "None", error |-> "None"]

\* one logged effect
Ev(op, res, size) == [op |-> op, res |-> res, size |-> size]

Count(s, op) == Cardinality({i \in DOMAIN s : s[i].op = op})

IndexOf(s, op) == IF \E i \in DOMAIN s : s[i].op = op
                  THEN CHOOSE i \in DOMAIN s : s[i].op = op /\ \A j \in DOMAIN s : s[j].op = op => i <= j
                  ELSE 0

Max(a, b) == IF a >= b THEN a ELSE b

\* ------------------------------------------------------- surface and depth
\* Surface::configure(&device, &surface_config): the surface takes the
\* dimensions of the configuration it is handed
Configure(surface_config) == [config |-> surface_config]

\* load::load_depth_render_data(render_context): a depth texture view of the
\* dimensions of render_context.surface_config
load_depth_render_data(rc) ==
    [view |-> PhysicalSize(rc.surface_config.width, rc.surface_config.height)]

\* resize, had it returned early when the size did not change
resize_SkipUnchangedSize(program_data, new_size, depth_result) ==
    LET rc1 == [program_data.render_context EXCEPT
                  !.surface_size = new_size,
                  !.aspect_ratio = <<new_size.width, new_size.height>>,
                  !.surface_config = PhysicalSize(new_size.width, new_size.height)]
        pd1 == [program_data EXCEPT !.render_context = rc1]
    IN  IF new_size.width = 0 \/ new_size.height = 0
           \/ new_size = program_data.render_context.surface_size
        THEN [program_data |-> pd1, result |-> "Ok", effects |-> <<>>]
        ELSE LET rc2 == [rc1 EXCEPT !.drawable_surface = Configure(rc1.surface_config)]
                 pd2 == [pd1 EXCEPT !.render_context = rc2]
                 effects == <<Ev("configure", "Ok", rc1.surface_config),
                              Ev("load_depth_render_data", depth_result, rc2.surface_config)>>
             IN  IF depth_result = "Ok"
                 THEN [program_data |-> [pd2 EXCEPT !.render_assets.depth = load_depth_render_data(rc2)],
                       result |-> "Ok", effects |-> effects]
                 ELSE [program_data |-> pd2, result |-> "Err", effects |-> effects]

\* resize, had it configured the surface before storing the new width and
\* height in surface_config
resize_StaleConfig(program_data, new_size, depth_result) ==
    LET rc0 == program_data.render_context
        rc1 == [rc0 EXCEPT
                  !.surface_size = new_size,
                  !.aspect_ratio = <<new_size.width, new_size.height>>,
                  !.surface_config = PhysicalSize(new_size.width, new_size.height)]
        pd1 == [program_data EXCEPT !.render_context = rc1]
    IN  IF new_size.width = 0 \/ new_size.height = 0
        THEN [program_data |-> pd1, result |-> "Ok", effects |-> <<>>]
        ELSE LET rc2 == [rc1 EXCEPT !.drawable_surface = Configure(rc0.surface_config)]
                 pd2 == [pd1 EXCEPT !.render_context = rc2]
                 effects == <<Ev("configure", "Ok", rc0.surface_config),
                              Ev("load_depth_render_data", depth_result, rc2.surface_config)>>
             IN  IF depth_result = "Ok"
                 THEN [program_data |-> [pd2 EXCEPT !.render_assets.depth = load_depth_render_data(rc2)],
                       result |-> "Ok", effects |-> effects]
                 ELSE [program_data |-> pd2, result |-> "Err", effects |-> effects]

\* resize, had it created the camera buffer anew along with the depth buffer
resize_NewCamera(program_data, new_size, depth_result) ==
    LET rc1 == [program_data.render_context EXCEPT
                  !.surface_size = new_size,
                  !.aspect_ratio = <<new_size.width, new_size.height>>,
                  !.surface_config = PhysicalSize(new_size.width, new_size.height)]
        pd1 == [program_data EXCEPT !.render_context = rc1]
    IN  IF new_size.width = 0 \/ new_size.height = 0
        THEN [program_data |-> pd1, result |-> "Ok", effects |-> <<>>]
        ELSE LET rc2 == [rc1 EXCEPT !.drawable_surface = Configure(rc1.surface_config)]
                 pd2 == [pd1 EXCEPT !.render_context = rc2]
                 effects == <<Ev("configure", "Ok", rc1.surface_config),
                              Ev("load_depth_render_data", depth_result, rc2.surface_config)>>
             IN  IF depth_result = "Ok"
                 THEN [program_data |->
                          [pd2 EXCEPT !.render_assets.depth = load_depth_render_data(rc2),
                                      !.render_assets.camera = [buffer |-> "camera_buffer_resized"]],
                       result |-> "Ok", effects |-> effects]
                 ELSE [program_data |-> pd2, result |-> "Err", effects |-> effects]

\* resize, had it not returned early on a zero width or height
resize_NoZeroCheck(program_data, new_size, depth_result) ==
    LET rc1 == [program_data.render_context EXCEPT
                  !.surface_size = new_size,
                  !.aspect_ratio = <<new_size.width, new_size.height>>,
                  !.surface_config = PhysicalSize(new_size.width, new_size.height)]
        rc2 == [rc1 EXCEPT !.drawable_surface = Configure(rc1.surface_config)]
        pd2 == [program_data EXCEPT !.render_context = rc2]
        effects == <<Ev("configure", "Ok", rc1.surface_config),
                     Ev("load_depth_render_data", depth_result, rc2.surface_config)>>
    IN  IF depth_result = "Ok"
        THEN [program_data |-> [pd2 EXCEPT !.render_assets.depth = load_depth_render_data(rc2)],
              result |-> "Ok", effects |-> effects]
        ELSE [program_data |-> pd2, result |-> "Err", effects |-> effects]

\* resize(program_data, new_size); depth_result is the outcome of
\* load_depth_render_data.  Returns the new program data, the Result and the
\* effects in program order.
resize(program_data, new_size, depth_result) ==
    LET rc1 == [program_data.render_context EXCEPT
                  !.surface_size = new_size,
                  !.aspect_ratio = <<new_size.width, new_size.height>>,
                  !.surface_config = PhysicalSize(new_size.width, new_size.height)]
        pd1 == [program_data EXCEPT !.render_context = rc1]
    IN  IF new_size.width = 0 \/ new_size.height = 0
        THEN [program_data |-> pd1, result |-> "Ok", effects |-> <<>>]
        ELSE LET rc2 == [rc1 EXCEPT !.drawable_surface = Configure(rc1.surface_config)]
                 pd2 == [pd1 EXCEPT !.render_context = rc2]
                 effects == <<Ev("configure", "Ok", rc1.surface_config),
                              Ev("load_depth_render_data", depth_result, rc2.surface_config)>>
             IN  IF depth_result = "Ok"
                 THEN [program_data |-> [pd2 EXCEPT !.render_assets.depth = load_depth_render_data(rc2)],
                       result |-> "Ok", effects |-> effects]
                 ELSE [program_data |-> pd2, result |-> "Err", effects |-> effects]

\* ------------------------------------------------------------ FpsCounter
\* FpsCounter::new at instant t
FpsCounterNew(t) == [frame_count |-> 0, frame_time_total |-> 0, next_output_time |-> t]

\* FpsCounter::step, had it set the next deadline one second after the
\* current time
FpsCounterStep_Rebase(self, frame_time, t) ==
    LET counted == [self EXCEPT !.frame_count = @ + 1,
                                !.frame_time_total = @ + frame_time]
    IN  IF t - counted.next_output_time < TicksPerSecond
        THEN [self |-> counted, output |-> <<>>]
        ELSE [self |-> [frame_count |-> 0, frame_time_total |-> 0,
                        next_output_time |-> t + TicksPerSecond],
              output |-> <<counted.frame_count,
                           counted.frame_time_total \div counted.frame_count>>]

\* FpsCounter::step, had it kept frame_time_total over a report
FpsCounterStep_KeepTotal(self, frame_time, t) ==
    LET counted == [self EXCEPT !.frame_count = @ + 1,
                                !.frame_time_total = @ + frame_time]
    IN  IF t - counted.next_output_time < TicksPerSecond
        THEN [self |-> counted, output |-> <<>>]
        ELSE [self |-> [frame_count |-> 0, frame_time_total |-> counted.frame_time_total,
                        next_output_time |-> counted.next_output_time + TicksPerSecond],
              output |-> <<counted.frame_count,
                           counted.frame_time_total \div counted.frame_count>>]

\* FpsCounter::step(frame_time) called at instant t: the counter afterwards
\* and the Option output (<<>> for None, <<count, mean>> for Some)
FpsCounterStep(self, frame_time, t) ==
    LET counted == [self EXCEPT !.frame_count = @ + 1,
                                !.frame_time_total = @ + frame_time]
    IN  IF t - counted.next_output_time < TicksPerSecond
        THEN [self |-> counted, output |-> <<>>]
        ELSE [self |-> [frame_count |-> 0, frame_time_total |-> 0,
                        next_output_time |-> counted.next_output_time + TicksPerSecond],
              output |-> <<counted.frame_count,
                           counted.frame_time_total \div counted.frame_count>>]

\* the samples of the current window after one more step: a step that
\* follows a report opens a new window
Sampled(samples, last_output, frame_time, t) ==
    LET sample == [frame_time |-> frame_time, at |-> t]
    IN  IF last_output # <<>> THEN <<sample>> ELSE Append(samples, sample)

\* ---------------------------------------------------------- render passes
LoadOpClear(value) == [op |-> "Clear", value |-> value]

LoadOpLoad == [op |-> "Load", value |-> <<>>]

\* wgpu::Color {r: 0.1, g: 0.2, b: 0.3, a: 1.0}
BackgroundColor == <<"0.1", "0.2", "0.3", "1.0">>

\* render_shadowmap_pipeline: the recorded pass
render_shadowmap_pipeline(assets) ==
    [label |-> "Shadowmap Render Pass",
     color_attachments |-> <<>>,
     depth_stencil_attachment |->
        [view |-> assets.depth.view,
         depth_ops |-> [load |-> LoadOpClear(<<"1.0">>), store |-> "Store"]],
     pipeline |-> "shadowmap_pipeline",
     bind_groups |-> <<[slot |-> 0, group |-> "shadowmap_bind_0"]>>,
     draws |-> <<[kind |-> "draw_indexed", mesh |-> 1,
                  instances |-> assets.example_models.instances_count]>>]

\* render_models_pipeline, had it bound the binding set of the last mesh for
\* the draw of the first
render_models_pipeline_LastBinding(assets) ==
    [label |-> "Models Render Pass",
     color_attachments |->
        <<[view |-> "output_view",
           ops |-> [load |-> LoadOpClear(BackgroundColor), store |-> "Store"]]>>,
     depth_stencil_attachment |->
        [view |-> assets.depth.view,
         depth_ops |-> [load |-> LoadOpClear(<<"1.0">>), store |-> "Store"]],
     pipeline |-> "models_pipeline",
     bind_groups |-> <<[slot |-> 0, group |-> "models_bind_0"]>>,
     draws |-> <<[kind |-> "draw_indexed", mesh |-> 1,
                  set_bind_group |-> [slot |-> 1, group |-> assets.example_models.meshes[Len(assets.example_models.meshes)].binding_1],
                  instances |-> assets.example_models.instances_count]>>]

\* render_models_pipeline: the recorded pass
render_models_pipeline(assets) ==
    [label |-> "Models Render Pass",
     color_attachments |->
        <<[view |-> "output_view",
           ops |-> [load |-> LoadOpClear(BackgroundColor), store |-> "Store"]]>>,
     depth_stencil_attachment |->
        [view |-> assets.depth.view,
         depth_ops |-> [load |-> LoadOpClear(<<"1.0">>), store |-> "Store"]],
     pipeline |-> "models_pipeline",
     bind_groups |-> <<[slot |-> 0, group |-> "models_bind_0"]>>,
     draws |-> <<[kind |-> "draw_indexed", mesh |-> 1,
                  set_bind_group |-> [slot |-> 1, group |-> assets.example_models.meshes[1].binding_1],
                  instances |-> assets.example_models.instances_count]>>]

\* render_skybox_pipeline, had it cleared the depth attachment like the two
\* passes before it
render_skybox_pipeline_ClearDepth(assets) ==
    [label |-> "Skybox Render Pass",
     color_attachments |->
        <<[view |-> "output_view",
           ops |-> [load |-> LoadOpLoad, store |-> "Store"]]>>,
     depth_stencil_attachment |->
        [view |-> assets.depth.view,
         depth_ops |-> [load |-> LoadOpClear(<<"1.0">>), store |-> "Store"]],
     pipeline |-> "skybox_pipeline",
     bind_groups |-> <<[slot |-> 0, group |-> "skybox_bind_0"]>>,
     draws |-> <<[kind |-> "draw", vertices |-> 3, instances |-> 1]>>]

\* render_skybox_pipeline: the recorded pass
render_skybox_pipeline(assets) ==
    [label |-> "Skybox Render Pass",
     color_attachments |->
        <<[view |-> "output_view",
           ops |-> [load |-> LoadOpLoad, store |-> "Store"]]>>,
     depth_stencil_attachment |->
        [view |-> assets.depth.view,
         depth_ops |-> [load |-> LoadOpLoad, store |-> "Store"]],
     pipeline |-> "skybox_pipeline",
     bind_groups |-> <<[slot |-> 0, group |-> "skybox_bind_0"]>>,
     draws |-> <<[kind |-> "draw", vertices |-> 3, instances |-> 1]>>]

\* render, had it recorded the skybox pass before the opaque-model pass
render_SkyboxFirst(assets) ==
    LET encoder0 == <<>>
        encoder1 == Append(encoder0, render_shadowmap_pipeline(assets))
        encoder2 == Append(encoder1, render_skybox_pipeline(assets))
        encoder3 == Append(encoder2, render_models_pipeline(assets))
    IN  encoder3

\* render: the command buffer built by one encoder, as the sequence of its
\* passes in recording order
render(assets) ==
    LET encoder0 == <<>>
        encoder1 == Append(encoder0, render_shadowmap_pipeline(assets))
        encoder2 == Append(encoder1, render_models_pipeline(assets))
        encoder3 == Append(encoder2, render_skybox_pipeline(assets))
    IN  encoder3

\* the effects of render in program order: one encoder, the passes it
\* records, one submission
RenderEffects(command_buffer) ==
    <<Ev("create_command_encoder", "Ok", NoSize)>>
    \o [i \in 1..Len(command_buffer) |-> Ev("begin_render_pass", command_buffer[i].label, NoSize)]
    \o <<Ev("submit", "Ok", NoSize)>>

\* ------------------------------------------------------------------ state
\* the effects of a handler include the creation of an asset that replaces
\* one the binding sets were created with
ReplacesAsset(effects) ==
    \E i \in DOMAIN effects :
        effects[i].op = "load_depth_render_data" /\ effects[i].res = "Ok"

\* the outcomes load_depth_render_data can have in a resize to new_size: it
\* is not called for a zero size
DepthResults(new_size) == IF IsZeroSize(new_size) THEN {"Ok"} ELSE Results

\* the part of ProgramData that resize works on
ProgramData ==
    [engine_config |-> engine_config,
     render_context |-> render_context,
     render_layouts |-> render_layouts,
     render_assets |-> render_assets,
     render_bindings |-> render_bindings]

\* what an event finds when it is dispatched
Snapshot ==
    [surface_size |-> render_context.surface_size,
     surface_config |-> render_context.surface_config,
     drawable_surface |-> render_context.drawable_surface,
     depth |-> render_assets.depth,
     program_data |-> ProgramData]

\* the per-draw bind group of a mesh: the texture view of the mesh's material
\* in the models_bind_1_layout
ModelsBind1(material_id) == [layout |-> "models_bind_1_layout", material |-> material_id]

\* load_render_context_data_async, had it left the surface unconfigured
LoadRenderContextData_Unconfigured(surface_size) ==
    [surface_size |-> surface_size,
     aspect_ratio |-> <<surface_size.width, surface_size.height>>,
     surface_config |-> PhysicalSize(surface_size.width, surface_size.height),
     drawable_surface |-> Configure(NoSize)]

\* load_render_context_data_async: the window's inner size becomes
\* surface_size and the size of the surface configuration, which is applied
\* to the surface at once (the window is created 1280 x 720, non-zero)
LoadRenderContextData(surface_size) ==
    [surface_size |-> surface_size,
     aspect_ratio |-> <<surface_size.width, surface_size.height>>,
     surface_config |-> PhysicalSize(surface_size.width, surface_size.height),
     drawable_surface |-> Configure(PhysicalSize(surface_size.width, surface_size.height))]

\* RenderAssets after load_render_assets: the depth buffer of the initial
\* surface and a model of mesh_count meshes, mesh i bound to binding set i
LoadRenderAssets(rc, mesh_count) ==
    [depth |-> load_depth_render_data(rc),
     camera |-> [buffer |-> "camera_buffer"],
     default_sampler |-> "default_sampler",
     materials_storage |->
        [list_2d |-> [i \in 1..mesh_count |-> [path |-> i, view |-> i]],
         list_cube |-> <<[path |-> "skybox", view |-> "skybox"]>>],
     shadow_caster |->
        [depth_tex_view |-> "shadowmap", depth_sampler |-> "depth_sampler",
         debug_depth_sampler |-> "debug_depth_sampler", proj_mat_buffer |-> "proj_mat_buffer"],
     skybox_material_id |-> 1,
     skybox_sampler |-> "skybox_sampler",
     example_models |->
        [instances_count |-> ExampleInstancesCount,
         meshes |-> [i \in 1..mesh_count |->
                       [material_id |-> i, binding_1 |-> ModelsBind1(i)]]]]

\* RenderLayouts after load_render_layouts
LoadRenderLayouts ==
    [bind_0_layout |-> "bind_0_layout",
     shadow_caster_pipeline |-> "shadow_caster_pipeline",
     models_pipeline |-> "models_pipeline",
     models_bind_1_layout |-> "models_bind_1_layout",
     skybox_pipeline |-> "skybox_pipeline"]

\* RenderBindings after load_render_bindings: the shared bind group and one
\* bind_1 per mesh, in the order of the meshes
LoadRenderBindings(assets) ==
    [bind_0 |-> "bind_0",
     example_models_bind_1s |->
        [i \in DOMAIN assets.example_models.meshes |->
            ModelsBind1(assets.example_models.meshes[i].material_id)]]

\* ----------------------------------------------------- load_engine_config
\* the entries load_engine_config reads
Keys ==
    {"config_version", "rendering_backend", "present_mode", "desired_frame_latency",
     "min_frame_time", "shadowmap_size", "compress_textures"}

\* serde_hjson::Value: an entry of the decoded map, or its absence; numbers
\* of time are in ticks
Missing == [type |-> "missing", s |-> "", n |-> 0, b |-> FALSE]

StrValue(s) == [type |-> "str", s |-> s, n |-> 0, b |-> FALSE]

IntValue(n) == [type |-> "int", s |-> "", n |-> n, b |-> FALSE]

FloatValue(n) == [type |-> "float", s |-> "", n |-> n, b |-> FALSE]

BoolValue(b) == [type |-> "bool", s |-> "", n |-> 0, b |-> b]

\* Value::as_str or the default, for a missing entry too
read_hjson_str(map, key, default) ==
    IF map[key].type = "str" THEN map[key].s ELSE default

\* Value::as_i64 or the default
read_hjson_i64(map, key, default) ==
    IF map[key].type = "int" THEN map[key].n ELSE default

\* Value::as_f64 (integers convert) or the default
read_hjson_f64(map, key, default) ==
    IF map[key].type \in {"int", "float"} THEN map[key].n ELSE default

\* Value::as_bool or the default
read_hjson_bool(map, key, default) ==
    IF map[key].type = "bool" THEN map[key].b ELSE default

\* str::to_lowercase, on the strings of the model
to_lowercase(str) ==
    CASE str = "Vulkan" -> "vulkan"
      [] str = "FIFO" -> "fifo"
      [] str = "Auto_No_Vsync" -> "auto_no_vsync"
      [] OTHER -> str

\* no updater functions exist yet
CONFIG_UPDATER_FUNCTIONS == <<>>

LATEST_CONFIG_VERSION == Len(CONFIG_UPDATER_FUNCTIONS) + 1

\* the values of i in `for i in config_version as usize .. LATEST_CONFIG_VERSION`:
\* a negative i64 casts to a usize above every version
UpdaterRange(config_version) ==
    IF config_version < 0 THEN {} ELSE config_version..(LATEST_CONFIG_VERSION - 1)

\* CONFIG_UPDATER_FUNCTIONS[i - 1] panics: i - 1 underflows usize (or, wrapped,
\* lies past the end of the list)
UpdaterIndexPanics(i) == i - 1 < 0 \/ i - 1 >= Len(CONFIG_UPDATER_FUNCTIONS)

\* the match on rendering_backend
BackendsOf(str) ==
    CASE str = "auto" -> "all"
      [] str = "vulkan" -> "VULKAN"
      [] str = "dx12" -> "DX12"
      [] str = "metal" -> "METAL"
      [] str = "opengl" -> "GL"
      [] OTHER -> "all"

\* the match on present_mode
PresentModeOf(str) ==
    CASE str = "auto_vsync" -> "AutoVsync"
      [] str = "auto_no_vsync" -> "AutoVsync"
      [] str = "fifo" -> "Fifo"
      [] str = "fifo_relaxed" -> "FifoRelaxed"
      [] str = "immediate" -> "Immediate"
      [] str = "mailbox" -> "Mailbox"
      [] OTHER -> "AutoVsync"

\* `i64 as u32`: the low 32 bits, as the pair of their high and low halves
AsU32(v) == <<(v \div U16) % U16, v % U16>>

\* Duration::from_secs_f64 panics on a negative number of seconds
DurationPanics(secs) == secs < 0

\* the file used when 'engine config.hjson' cannot be read
DefaultEngineConfigFile ==
    [readable |-> TRUE, decodable |-> TRUE,
     entries |->
        [key \in Keys |->
            CASE key = "config_version" -> IntValue(1)
              [] key = "rendering_backend" -> StrValue("auto")
              [] key = "present_mode" -> StrValue("auto_vsync")
              [] key = "desired_frame_latency" -> IntValue(1)
              [] key = "min_frame_time" -> FloatValue(MinFrameTime)
              [] key = "shadowmap_size" -> IntValue(512)
              [] key = "compress_textures" -> BoolValue(TRUE)]]

\* load_engine_config: Ok with the EngineConfig, Err, or a panic
load_engine_config(file) ==
    LET engine_config_string == IF file.readable THEN file ELSE DefaultEngineConfigFile
        map == engine_config_string.entries
        config_version == read_hjson_i64(map, "config_version", LATEST_CONFIG_VERSION)
        rendering_backend_str == read_hjson_str(map, "rendering_backend", "auto")
        present_mode_str == read_hjson_str(map, "present_mode", "auto_vsync")
        desired_frame_latency_i64 == read_hjson_i64(map, "desired_frame_latency", 1)
        min_frame_time_f64 == read_hjson_f64(map, "min_frame_time", MinFrameTime)
        shadowmap_size_i64 == read_hjson_i64(map, "shadowmap_size", 512)
    IN  IF ~engine_config_string.decodable
        THEN [tag |-> "Err", config |-> <<>>]
        ELSE IF \E i \in UpdaterRange(config_version) : UpdaterIndexPanics(i)
        THEN [tag |-> "Panic", config |-> <<>>]
        ELSE IF DurationPanics(min_frame_time_f64)
        THEN [tag |-> "Panic", config |-> <<>>]
        ELSE [tag |-> "Ok",
              config |->
                 [rendering_backend |-> BackendsOf(to_lowercase(rendering_backend_str)),
                  present_mode |-> PresentModeOf(to_lowercase(present_mode_str)),
                  desired_frame_latency |-> AsU32(desired_frame_latency_i64),
                  min_frame_time |-> min_frame_time_f64,
                  shadowmap_size |-> AsU32(shadowmap_size_i64),
                  compress_textures |-> read_hjson_bool(map, "compress_textures", TRUE)]]

\* load_engine_config has not been called
NotLoaded == [tag |-> "None", config |-> <<>>]

\* load_program_data
Init ==
    /\ config_file = DefaultEngineConfigFile
    /\ config_result = load_engine_config(config_file)
    /\ engine_config = config_result.config
    /\ render_layouts = LoadRenderLayouts
    /\ \E s \in NonZeroSizes :
          /\ render_context = LoadRenderContextData(s)
          /\ render_assets = LoadRenderAssets(LoadRenderContextData(s), MaxMeshes)
    /\ render_bindings = LoadRenderBindings(render_assets)
    /\ bindings_current = TRUE
    /\ fps_counter = FpsCounterNew(0)
    /\ fps_samples = <<>>
    /\ fps_output = <<>>
    /\ frame_start_instant = 0
    /\ now = 0
    /\ redraw_pending = TRUE
    /\ exit_requested = FALSE
    /\ panicked = FALSE
    /\ pc = "idle"
    /\ ret = Pending
    /\ surface_output = "None"
    /\ command_queue = <<>>
    /\ log = <<>>
    /\ event = [kind |-> "None", size |-> NoSize, before |-> Snapshot]

\* the event loop dispatches an event: no handler is running, exit was not
\* requested and the process is alive
Running == pc = "idle" /\ ~exit_requested /\ ~panicked

\* ------------------------------------------------- window_event, one-step
\* WindowEvent::CloseRequested
WindowEventCloseRequested ==
    /\ Running
    /\ exit_requested' = TRUE
    /\ log' = <<Ev("exit", "Ok", NoSize)>>
    /\ event' = [kind |-> "CloseRequested", size |-> NoSize, before |-> Snapshot]
    /\ UNCHANGED <<render_context, render_assets, fps_counter, frame_start_instant, now,
                   redraw_pending, panicked, pc, ret, surface_output, command_queue,
                   engine_config, render_layouts, render_bindings, bindings_current,
                   fps_samples, fps_output,
                   config_file, config_result>>

\* WindowEvent::Resized(new_size): resize(..).expect(..)
WindowEventResized ==
    /\ Running
    /\ \E new_size \in Sizes : \E depth_result \in DepthResults(new_size) :
          LET r == resize(ProgramData, new_size, depth_result)
          IN  /\ engine_config' = r.program_data.engine_config
              /\ render_context' = r.program_data.render_context
              /\ render_layouts' = r.program_data.render_layouts
              /\ render_assets' = r.program_data.render_assets
              /\ render_bindings' = r.program_data.render_bindings
              /\ bindings_current' = (bindings_current /\ ~ReplacesAsset(r.effects))
              /\ panicked' = (r.result = "Err")
              /\ log' = r.effects
              /\ event' = [kind |-> "Resized", size |-> new_size, before |-> Snapshot]
    /\ UNCHANGED <<fps_counter, frame_start_instant, now, redraw_pending, exit_requested,
                   pc, ret, surface_output, command_queue,
                   fps_samples, fps_output,
                   config_file, config_result>>

\* about_to_wait: window.request_redraw()
AboutToWait ==
    /\ Running
    /\ redraw_pending' = TRUE
    /\ UNCHANGED <<render_context, render_assets, fps_counter, frame_start_instant, now,
                   exit_requested, panicked, pc, ret, surface_output, command_queue,
                   log, event,
                   engine_config, render_layouts, render_bindings, bindings_current,
                   fps_samples, fps_output,
                   config_file, config_result>>

\* wall-clock time passes between two events
TimePasses ==
    /\ Running
    /\ now < MaxClock
    /\ now' = now + 1
    /\ UNCHANGED <<render_context, render_assets, fps_counter, frame_start_instant,
                   redraw_pending, exit_requested, panicked, pc, ret, surface_output,
                   command_queue, log, event,
                   engine_config, render_layouts, render_bindings, bindings_current,
                   fps_samples, fps_output,
                   config_file, config_result>>

\* ------------------------------------------------------ redraw_requested
\* AcquireArm, had out of memory been handled like a lost surface
AcquireArm_OomRecover(result) ==
    CASE result = "Ok" -> "render"
      [] result = "Lost" -> "resize"
      [] result = "Outdated" -> "resize"
      [] result = "OutOfMemory" -> "resize"
      [] OTHER -> "propagate"

\* AcquireArm, had every error but out of memory been handled like a lost
\* surface
AcquireArm_AllRecover(result) ==
    CASE result = "Ok" -> "render"
      [] result = "OutOfMemory" -> "exit"
      [] OTHER -> "resize"

\* the arm of the match on the first get_current_texture result that the
\* frame takes
AcquireArm(result) ==
    CASE result = "Ok" -> "render"
      [] result = "Lost" -> "resize"
      [] result = "Outdated" -> "resize"
      [] result = "OutOfMemory" -> "exit"
      [] OTHER -> "propagate"

\* SleepTime, had it slept for the whole of min_frame_time
SleepTime_WholeFloor(frame_time, min_frame_time) ==
    IF frame_time < min_frame_time THEN <<min_frame_time>> ELSE <<>>

\* the time the frame sleeps for: <<>> when frame_time is not below
\* min_frame_time
SleepTime(frame_time, min_frame_time) ==
    IF frame_time < min_frame_time THEN <<min_frame_time - frame_time>> ELSE <<>>

\* IsVisible, had it looked at the width alone
IsVisible_WidthOnly(size) == size.width > 0

\* the frame renders only when the window is visible: size.width > 0 &&
\* size.height > 0
IsVisible(size) == size.width > 0 /\ size.height > 0

\* WindowEvent::RedrawRequested is dispatched and redraw_requested runs up to
\* the size check: frame_start_time, step_dt, update::update(..)?
RedrawRequestedBegin ==
    /\ Running
    /\ redraw_pending
    /\ now + Max(MaxWork, MinFrameTime) <= MaxClock
    /\ redraw_pending' = FALSE
    /\ frame_start_instant' = now
    /\ event' = [kind |-> "RedrawRequested", size |-> NoSize, before |-> Snapshot]
    /\ \E update_result \in Results :
          /\ log' = <<Ev("update", update_result, NoSize)>>
          /\ IF update_result = "Err"
             THEN ret' = Err("update") /\ pc' = "return"
             ELSE IF IsVisible(render_context.surface_size)
                  THEN ret' = Pending /\ pc' = "acquire"
                  ELSE ret' = Ok /\ pc' = "return"
    /\ UNCHANGED <<render_context, render_assets, fps_counter, now, exit_requested, panicked,
                   surface_output, command_queue,
                   engine_config, render_layouts, render_bindings, bindings_current,
                   fps_samples, fps_output,
                   config_file, config_result>>

\* the first get_current_texture and the match on its result
RedrawAcquire ==
    /\ pc = "acquire"
    /\ \E result \in SurfaceResults :
          /\ log' = Append(log, Ev("get_current_texture", result, NoSize))
          /\ CASE AcquireArm(result) = "render" ->
                    /\ surface_output' = "Acquired"
                    /\ pc' = "render"
                    /\ UNCHANGED <<ret, exit_requested>>
               [] AcquireArm(result) = "resize" ->
                    /\ pc' = "resize"
                    /\ UNCHANGED <<surface_output, ret, exit_requested>>
               [] AcquireArm(result) = "exit" ->
                    /\ exit_requested' = TRUE
                    /\ ret' = Ok
                    /\ pc' = "return"
                    /\ UNCHANGED surface_output
               [] OTHER ->
                    /\ ret' = Err(result)
                    /\ pc' = "return"
                    /\ UNCHANGED <<surface_output, exit_requested>>
    /\ UNCHANGED <<render_context, render_assets, fps_counter, frame_start_instant, now,
                   redraw_pending, panicked, command_queue, event,
                   engine_config, render_layouts, render_bindings, bindings_current,
                   fps_samples, fps_output,
                   config_file, config_result>>

\* the Lost and Outdated arms: resize(program_data, surface_size).context(..)?
RedrawResize ==
    /\ pc = "resize"
    /\ \E depth_result \in Results :
          LET r == resize(ProgramData, render_context.surface_size, depth_result)
          IN  /\ engine_config' = r.program_data.engine_config
              /\ render_context' = r.program_data.render_context
              /\ render_layouts' = r.program_data.render_layouts
              /\ render_assets' = r.program_data.render_assets
              /\ render_bindings' = r.program_data.render_bindings
              /\ bindings_current' = (bindings_current /\ ~ReplacesAsset(r.effects))
              /\ log' = log \o r.effects
              /\ IF r.result = "Ok"
                 THEN pc' = "retry" /\ ret' = ret
                 ELSE pc' = "return" /\ ret' = Err("Failed to resize window.")
    /\ UNCHANGED <<fps_counter, frame_start_instant, now, redraw_pending, exit_requested,
                   panicked, surface_output, command_queue, event,
                   fps_samples, fps_output,
                   config_file, config_result>>

\* RedrawRetry, had a lost or outdated surface on the retry led to another
\* resize and retry
RedrawRetry_Again ==
    /\ pc = "retry"
    /\ \E result \in SurfaceResults :
          /\ log' = Append(log, Ev("get_current_texture", result, NoSize))
          /\ IF result = "Ok"
             THEN surface_output' = "Acquired" /\ pc' = "render" /\ ret' = ret
             ELSE IF result \in {"Lost", "Outdated"}
                  THEN surface_output' = surface_output /\ pc' = "resize" /\ ret' = ret
                  ELSE surface_output' = surface_output /\ pc' = "return" /\ ret' = Err(result)
    /\ UNCHANGED <<render_context, render_assets, fps_counter, frame_start_instant, now,
                   redraw_pending, exit_requested, panicked, command_queue, event,
                   engine_config, render_layouts, render_bindings, bindings_current,
                   fps_samples, fps_output,
                   config_file, config_result>>

\* the Lost and Outdated arms: get_current_texture()?
RedrawRetry ==
    /\ pc = "retry"
    /\ \E result \in SurfaceResults :
          /\ log' = Append(log, Ev("get_current_texture", result, NoSize))
          /\ IF result = "Ok"
             THEN surface_output' = "Acquired" /\ pc' = "render" /\ ret' = ret
             ELSE surface_output' = surface_output /\ pc' = "return" /\ ret' = Err(result)
    /\ UNCHANGED <<render_context, render_assets, fps_counter, frame_start_instant, now,
                   redraw_pending, exit_requested, panicked, command_queue, event,
                   engine_config, render_layouts, render_bindings, bindings_current,
                   fps_samples, fps_output,
                   config_file, config_result>>

\* render::render(&surface_output, program_data); recording and submission
\* take some time
RedrawRender ==
    /\ pc = "render"
    /\ LET command_buffer == render(render_assets)
       IN  /\ command_queue' = Append(command_queue, command_buffer)
           /\ log' = log \o RenderEffects(command_buffer)
    /\ \E work \in 0..MaxWork : now' = now + work
    /\ pc' = "pace"
    /\ UNCHANGED <<render_context, render_assets, fps_counter, frame_start_instant,
                   redraw_pending, exit_requested, panicked, ret, surface_output, event,
                   engine_config, render_layouts, render_bindings, bindings_current,
                   fps_samples, fps_output,
                   config_file, config_result>>

\* frame pacing: thread::sleep for the rest of min_frame_time
RedrawPace ==
    /\ pc = "pace"
    /\ LET sleep_time == SleepTime(now - frame_start_instant, engine_config.min_frame_time)
       IN  IF sleep_time # <<>>
           THEN /\ now' = now + sleep_time[1]
                /\ log' = Append(log, Ev("sleep", sleep_time[1], NoSize))
           ELSE UNCHANGED <<now, log>>
    /\ pc' = "fps"
    /\ UNCHANGED <<render_context, render_assets, fps_counter, frame_start_instant,
                   redraw_pending, exit_requested, panicked, ret, surface_output,
                   command_queue, event,
                   engine_config, render_layouts, render_bindings, bindings_current,
                   fps_samples, fps_output,
                   config_file, config_result>>

\* fps_counter.step(frame_start_time.elapsed())
RedrawFps ==
    /\ pc = "fps"
    /\ LET r == FpsCounterStep(fps_counter, now - frame_start_instant, now)
       IN  /\ fps_counter' = r.self
           /\ fps_output' = r.output
           /\ fps_samples' = Sampled(fps_samples, fps_output, now - frame_start_instant, now)
           /\ log' = Append(log, Ev("fps_counter.step",
                                    IF r.output = <<>> THEN "None" ELSE "Some", NoSize))
    /\ pc' = "present"
    /\ UNCHANGED <<render_context, render_assets, frame_start_instant, now, redraw_pending,
                   exit_requested, panicked, ret, surface_output, command_queue, event,
                   engine_config, render_layouts, render_bindings, bindings_current,
                   config_file, config_result>>

\* RedrawPresent, had the window been notified after the present
RedrawPresent_NotifyAfter ==
    /\ pc = "present"
    /\ log' = log \o <<Ev("present", "Ok", NoSize), Ev("pre_present_notify", "Ok", NoSize)>>
    /\ surface_output' = "Presented"
    /\ ret' = Ok
    /\ pc' = "return"
    /\ UNCHANGED <<render_context, render_assets, fps_counter, frame_start_instant, now,
                   redraw_pending, exit_requested, panicked, command_queue, event,
                   engine_config, render_layouts, render_bindings, bindings_current,
                   fps_samples, fps_output,
                   config_file, config_result>>

\* window.pre_present_notify(); surface_output.present(); Ok(())
RedrawPresent ==
    /\ pc = "present"
    /\ log' = log \o <<Ev("pre_present_notify", "Ok", NoSize), Ev("present", "Ok", NoSize)>>
    /\ surface_output' = "Presented"
    /\ ret' = Ok
    /\ pc' = "return"
    /\ UNCHANGED <<render_context, render_assets, fps_counter, frame_start_instant, now,
                   redraw_pending, exit_requested, panicked, command_queue, event,
                   engine_config, render_layouts, render_bindings, bindings_current,
                   fps_samples, fps_output,
                   config_file, config_result>>

\* back in window_event: an Err is logged and the event loop is told to exit;
\* the frame's locals (the result, the surface texture, the submitted
\* command buffer) are gone when the handler ends
RedrawReturn ==
    /\ pc = "return"
    /\ IF ret.tag = "Err"
       THEN /\ exit_requested' = TRUE
            /\ log' = Append(log, Ev("exit", "Err", NoSize))
       ELSE UNCHANGED <<exit_requested, log>>
    /\ ret' = Pending
    /\ surface_output' = "None"
    /\ command_queue' = <<>>
    /\ pc' = "idle"
    /\ UNCHANGED <<render_context, render_assets, fps_counter, frame_start_instant, now,
                   redraw_pending, panicked, event,
                   engine_config, render_layouts, render_bindings, bindings_current,
                   fps_samples, fps_output,
                   config_file, config_result>>

\* --------------------------------------------------------- specification
Next ==
    \/ WindowEventCloseRequested
    \/ WindowEventResized
    \/ AboutToWait
    \/ TimePasses
    \/ RedrawRequestedBegin
    \/ RedrawAcquire
    \/ RedrawResize
    \/ RedrawRetry
    \/ RedrawRender
    \/ RedrawPace
    \/ RedrawFps
    \/ RedrawPresent
    \/ RedrawReturn

Spec == Init /\ [][Next]_vars

\* ================================================================ claims
\* the acquisitions of the current frame, in order
Acquires == SelectSeq(log, LAMBDA e : e.op = "get_current_texture")

\* the reconfigurations of the surface by the current handler, in order
Configures == SelectSeq(log, LAMBDA e : e.op = "configure")

\* redraw_requested has returned and window_event has not yet looked at the result
FrameReturned == pc = "return" /\ event.kind = "RedrawRequested"

\* the RedrawRequested handler has ended and no other event came since
RedrawHandled == pc = "idle" /\ event.kind = "RedrawRequested"

\* the first acquisition reported a lost or outdated surface and the retry succeeded
RecoveredFrame ==
    /\ Len(Acquires) >= 2
    /\ Acquires[1].res \in {"Lost", "Outdated"}
    /\ Acquires[2].res = "Ok"

\* C1: a frame whose first acquisition fails with surface lost or outdated and
\* whose retry succeeds reconfigures the surface exactly once, at the surface
\* size the frame started with, between the two acquisitions, acquires exactly
\* twice, and ends having submitted the passes and presented the texture.
C1_RecoverOnceAndPresent ==
    (FrameReturned /\ RecoveredFrame) =>
        /\ Len(Configures) = 1
        /\ Configures[1].size = event.before.surface_size
        /\ render_context.surface_size = event.before.surface_size
        /\ render_context.drawable_surface.config = event.before.surface_size
        /\ Len(Acquires) = 2
        /\ IndexOf(log, "get_current_texture") < IndexOf(log, "configure")
        /\ log[IndexOf(log, "configure") + 2] = Acquires[2]
        /\ Count(log, "submit") = 1
        /\ Len(command_queue) = 1
        /\ Count(log, "present") = 1
        /\ log[Len(log)].op = "present"
        /\ surface_output = "Presented"
        /\ ret = Ok

C1_Witness ==
    /\ FrameReturned /\ RecoveredFrame
    /\ Acquires[1].res = "Lost"
    /\ surface_output = "Presented"

\* the retried acquisition failed
RetryFailed == Len(Acquires) >= 2 /\ Acquires[2].res # "Ok"

\* C2: a frame acquires at most twice; when the retried acquisition fails, with
\* whatever error, redraw_requested returns that error having recorded no
\* pass, submitted nothing and presented nothing, and window_event then
\* requests the exit of the event loop.
C2_RetryAtMostOnceThenFatal ==
    /\ Len(Acquires) <= 2
    /\ (Len(Acquires) = 2 => Acquires[1].res \in {"Lost", "Outdated"})
    /\ (FrameReturned /\ RetryFailed) =>
          /\ ret = Err(Acquires[2].res)
          /\ Count(log, "begin_render_pass") = 0
          /\ Count(log, "submit") = 0
          /\ command_queue = <<>>
          /\ Count(log, "present") = 0
          /\ surface_output = "None"
    /\ (RedrawHandled /\ RetryFailed) =>
          /\ exit_requested
          /\ log[Len(log)] = Ev("exit", "Err", NoSize)
          /\ Count(log, "present") = 0

C2_Witness ==
    /\ RedrawHandled /\ RetryFailed
    /\ Acquires[1].res = "Outdated"
    /\ Acquires[2].res = "Lost"
    /\ exit_requested

\* the first acquisition of the frame reported result
FirstAcquire(result) == Len(Acquires) >= 1 /\ Acquires[1].res = result

\* C3: when the acquisition reports out of memory the frame reconfigures
\* nothing, does not retry, submits nothing and presents nothing, and the exit
\* of the event loop is requested.
C3_OutOfMemoryStopsFrame ==
    ((FrameReturned \/ RedrawHandled) /\ FirstAcquire("OutOfMemory")) =>
        /\ Len(Configures) = 0
        /\ Count(log, "load_depth_render_data") = 0
        /\ Len(Acquires) = 1
        /\ Count(log, "begin_render_pass") = 0
        /\ Count(log, "submit") = 0
        /\ command_queue = <<>>
        /\ Count(log, "sleep") = 0
        /\ Count(log, "fps_counter.step") = 0
        /\ Count(log, "present") = 0
        /\ surface_output = "None"
        /\ exit_requested

C3_Witness == RedrawHandled /\ FirstAcquire("OutOfMemory") /\ exit_requested

\* C4: an acquisition error other than lost, outdated and out of memory is
\* returned by redraw_requested as it is: the frame reconfigures nothing, does
\* not retry, submits nothing and presents nothing, and window_event requests
\* the exit of the event loop.
C4_OtherErrorPropagates ==
    \A result \in SurfaceResults \ {"Ok", "Lost", "Outdated", "OutOfMemory"} :
        /\ (FrameReturned /\ FirstAcquire(result)) =>
              /\ ret = Err(result)
              /\ Len(Configures) = 0
              /\ Len(Acquires) = 1
              /\ Count(log, "submit") = 0
              /\ command_queue = <<>>
              /\ Count(log, "present") = 0
              /\ surface_output = "None"
        /\ (RedrawHandled /\ FirstAcquire(result)) =>
              /\ exit_requested
              /\ log[Len(log)] = Ev("exit", "Err", NoSize)
              /\ Len(Configures) = 0
              /\ Len(Acquires) = 1
              /\ Count(log, "submit") = 0
              /\ Count(log, "present") = 0

C4_Witness == RedrawHandled /\ FirstAcquire("Timeout") /\ exit_requested

\* the frame acquired a swapchain texture
AcquiredFrame == \E i \in DOMAIN Acquires : Acquires[i].res = "Ok"

\* C5: a frame that acquires a texture is NotAcquired, Acquired, Submitted,
\* Presented in that order: one submission after the acquisition and before
\* the present, the pre-present notification immediately before the present,
\* one present; and there is no present without an earlier acquisition and a
\* submission after it in the same frame.
C5_AcquireSubmitPresentOrder ==
    /\ Count(log, "submit") <= 1
    /\ Count(log, "present") <= 1
    /\ \A i \in DOMAIN log :
          log[i].op = "present" =>
              /\ i > 1
              /\ log[i - 1].op = "pre_present_notify"
              /\ \E a \in 1..(i - 1) : \E b \in (a + 1)..(i - 1) :
                    /\ log[a] = Ev("get_current_texture", "Ok", NoSize)
                    /\ log[b].op = "submit"
    /\ (pc \in {"acquire", "resize", "retry"}) =>
          surface_output = "None" /\ ~AcquiredFrame /\ Count(log, "submit") = 0
    /\ (pc = "render") =>
          surface_output = "Acquired" /\ AcquiredFrame /\ Count(log, "submit") = 0
    /\ (pc \in {"pace", "fps", "present"}) =>
          /\ surface_output = "Acquired"
          /\ Count(log, "submit") = 1
          /\ Len(command_queue) = 1
          /\ Count(log, "present") = 0
    /\ (FrameReturned /\ AcquiredFrame) =>
          /\ surface_output = "Presented"
          /\ Count(log, "submit") = 1
          /\ Len(command_queue) = 1
          /\ Count(log, "pre_present_notify") = 1
          /\ Count(log, "present") = 1
          /\ ret = Ok
    /\ (FrameReturned /\ ~AcquiredFrame) =>
          surface_output = "None" /\ Count(log, "submit") = 0 /\ Count(log, "present") = 0

C5_Witness ==
    /\ FrameReturned
    /\ FirstAcquire("Ok")
    /\ surface_output = "Presented"
    /\ Count(log, "submit") = 1

\* the labels of the passes of a command buffer, in recording order
PassLabels(command_buffer) == [i \in 1..Len(command_buffer) |-> command_buffer[i].label]

\* the labels of the passes begun among the first n effects of the handler
PassesBegunBefore(n) ==
    LET begun == SelectSeq(SubSeq(log, 1, n - 1), LAMBDA e : e.op = "begin_render_pass")
    IN  [i \in 1..Len(begun) |-> begun[i].res]

ThreePasses == <<"Shadowmap Render Pass", "Models Render Pass", "Skybox Render Pass">>

\* C6: the frame records the shadow pass, then the opaque-model pass, then the
\* skybox pass, each once, into one command encoder, and all three before the
\* submission.
C6_PassOrder ==
    /\ Count(log, "create_command_encoder") <= 1
    /\ \A k \in DOMAIN command_queue : PassLabels(command_queue[k]) = ThreePasses
    /\ \A i \in DOMAIN log :
          log[i].op = "submit" =>
              /\ PassesBegunBefore(i) = ThreePasses
              /\ PassesBegunBefore(Len(log) + 1) = ThreePasses
              /\ IndexOf(log, "create_command_encoder") > 0
              /\ IndexOf(log, "create_command_encoder") < IndexOf(log, "begin_render_pass")
    /\ (Count(log, "submit") = 0) => Count(log, "begin_render_pass") = 0

C6_Witness ==
    /\ pc = "pace"
    /\ Len(command_queue) = 1
    /\ Len(command_queue[1]) = 3
    /\ Count(log, "submit") = 1

\* the pass of a command buffer with the given label
PassesLabelled(command_buffer, label) ==
    {command_buffer[i] : i \in {j \in DOMAIN command_buffer : command_buffer[j].label = label}}

\* C7: in every submitted command buffer the shadow pass has no color
\* attachment and clears depth to 1.0, the opaque-model pass clears depth to
\* 1.0 and clears color to the background color, and the skybox pass loads
\* both color and depth.
C7_LoadOps ==
    \A k \in DOMAIN command_queue :
        /\ \A pass \in PassesLabelled(command_queue[k], "Shadowmap Render Pass") :
              /\ pass.color_attachments = <<>>
              /\ pass.depth_stencil_attachment.depth_ops.load = [op |-> "Clear", value |-> <<"1.0">>]
        /\ \A pass \in PassesLabelled(command_queue[k], "Models Render Pass") :
              /\ Len(pass.color_attachments) = 1
              /\ pass.color_attachments[1].ops.load =
                    [op |-> "Clear", value |-> <<"0.1", "0.2", "0.3", "1.0">>]
              /\ pass.depth_stencil_attachment.depth_ops.load = [op |-> "Clear", value |-> <<"1.0">>]
        /\ \A pass \in PassesLabelled(command_queue[k], "Skybox Render Pass") :
              /\ Len(pass.color_attachments) = 1
              /\ pass.color_attachments[1].ops.load.op = "Load"
              /\ pass.depth_stencil_attachment.depth_ops.load.op = "Load"
        /\ \A label \in {ThreePasses[i] : i \in 1..3} :
              PassesLabelled(command_queue[k], label) # {}

C7_Witness ==
    /\ pc = "present"
    /\ Len(command_queue) = 1
    /\ PassesLabelled(command_queue[1], "Skybox Render Pass") # {}

\* the Resized handler has ended and no other event came since
ResizeHandled == pc = "idle" /\ event.kind = "Resized"

\* C8: a resize to a size with a zero width or height leaves the depth buffer
\* and the surface configuration, its stored width and height included, as
\* they were, creates no asset, and returns without error.
C8_ZeroResizeLeavesAllUnchanged ==
    (ResizeHandled /\ IsZeroSize(event.size)) =>
        /\ render_assets.depth = event.before.depth
        /\ render_context.drawable_surface = event.before.drawable_surface
        /\ render_context.surface_config = event.before.surface_config
        /\ Count(log, "load_depth_render_data") = 0
        /\ Count(log, "configure") = 0
        /\ ~panicked

\* C9: a resize to (W, H), both non-zero, that finds a zero surface size
\* configures the surface exactly once, with (W, H), stores (W, H) in the
\* surface configuration, and asks for one depth buffer of (W, H); when that
\* creation succeeds the depth buffer of the program is the new one.
C9_ResizeAfterZeroRecreatesDepth ==
    (ResizeHandled /\ IsZeroSize(event.before.surface_size) /\ ~IsZeroSize(event.size)) =>
        /\ render_context.surface_size = event.size
        /\ render_context.surface_config = event.size
        /\ Len(Configures) = 1
        /\ Configures[1].size = event.size
        /\ render_context.drawable_surface.config = event.size
        /\ Count(log, "load_depth_render_data") = 1
        /\ log[2].op = "load_depth_render_data"
        /\ log[2].size = event.size
        /\ (log[2].res = "Ok") <=> ~panicked
        /\ ~panicked => render_assets.depth.view = event.size

C9_Witness ==
    /\ ResizeHandled
    /\ event.before.surface_size = PhysicalSize(0, MaxDim)
    /\ event.before.depth.view = PhysicalSize(1, 1)
    /\ event.size = PhysicalSize(MaxDim, 1)
    /\ render_assets.depth.view = PhysicalSize(MaxDim, 1)
    /\ ~panicked

\* C10: whenever the last known window size is non-zero in both dimensions
\* the stored surface configuration has that width and height, after a resize
\* event to such a size in particular, and the surface is never configured
\* with a zero width or height.
C10_ConfigMatchesWindow ==
    /\ ~IsZeroSize(render_context.surface_size) =>
          /\ render_context.surface_config.width = render_context.surface_size.width
          /\ render_context.surface_config.height = render_context.surface_size.height
    /\ (ResizeHandled /\ ~IsZeroSize(event.size)) =>
          /\ render_context.surface_size = event.size
          /\ render_context.surface_config = event.size
          /\ render_context.drawable_surface.config = event.size
    /\ \A i \in DOMAIN Configures : ~IsZeroSize(Configures[i].size)
    /\ ~IsZeroSize(render_context.drawable_surface.config)

C10_Witness ==
    /\ ResizeHandled
    /\ ~IsZeroSize(event.size)
    /\ ~IsZeroSize(event.before.surface_size)
    /\ event.size # event.before.surface_size
    /\ render_context.surface_config = event.size
    /\ Len(Configures) = 1

\* C11: a redraw request that finds a surface size with a zero width or
\* height does nothing after update: no acquisition, no encoder, no pass, no
\* submission, no sleep, no call of the FPS counter and no present, no time
\* spent waiting, and, update having succeeded, it returns Ok.
C11_ZeroSizeSkipsFrame ==
    /\ (IsZeroSize(render_context.surface_size) /\ event.kind = "RedrawRequested") =>
          /\ pc \in {"idle", "return"}
          /\ Len(Acquires) = 0
          /\ Count(log, "create_command_encoder") = 0
          /\ Count(log, "begin_render_pass") = 0
          /\ Count(log, "submit") = 0
          /\ command_queue = <<>>
          /\ Count(log, "sleep") = 0
          /\ Count(log, "fps_counter.step") = 0
          /\ Count(log, "pre_present_notify") = 0
          /\ Count(log, "present") = 0
          /\ surface_output = "None"
    /\ (FrameReturned /\ IsZeroSize(render_context.surface_size)) =>
          /\ now = frame_start_instant
          /\ (log = <<Ev("update", "Ok", NoSize)>>) => ret = Ok
          /\ (ret # Ok) => log = <<Ev("update", "Err", NoSize)>>

C11_Witness ==
    /\ FrameReturned
    /\ render_context.surface_size = PhysicalSize(MaxDim, 0)
    /\ log = <<Ev("update", "Ok", NoSize)>>
    /\ ret = Ok

\* a frame was recorded by the current or last redraw
FrameRecorded == event.kind = "RedrawRequested" /\ Count(log, "begin_render_pass") > 0

\* C12: no frame is recorded with binding sets created before the most recent
\* replacement of an asset: after a resize recreated the depth buffer, the
\* binding sets are rebuilt before the next frame is recorded.
C12_BindingsRebuiltBeforeNextFrame == FrameRecorded => bindings_current

\* the passes with the given label among all submitted command buffers
SubmittedPasses(label) ==
    UNION {PassesLabelled(command_queue[k], label) : k \in DOMAIN command_queue}

\* the draws of a pass cover every mesh once, in order, each an indexed draw of
\* all instances
DrawsEveryMesh(pass, models) ==
    /\ Len(pass.draws) = Len(models.meshes)
    /\ \A i \in DOMAIN pass.draws :
          /\ pass.draws[i].kind = "draw_indexed"
          /\ pass.draws[i].mesh = i
          /\ pass.draws[i].instances = models.instances_count

\* C13: for a mesh list of length M and N instances, the shadow pass and the
\* opaque-model pass each issue one indexed, instanced draw per mesh, covering
\* all M meshes, each draw spanning the instances 0..N.
C13_OneDrawPerMesh ==
    \A label \in {"Shadowmap Render Pass", "Models Render Pass"} :
        \A pass \in SubmittedPasses(label) :
            DrawsEveryMesh(pass, render_assets.example_models)

\* C14: in the opaque-model pass every draw of mesh[i] is made with the
\* per-draw binding set i, the one built from that mesh's material, bound at
\* slot 1, and with no binding set j # i.
C14_MeshPairedWithOwnBinding ==
    \A pass \in SubmittedPasses("Models Render Pass") :
        \A d \in DOMAIN pass.draws :
            LET draw == pass.draws[d]
                bind_1s == render_bindings.example_models_bind_1s
            IN  /\ draw.set_bind_group.slot = 1
                /\ draw.set_bind_group.group = bind_1s[draw.mesh]
                /\ draw.set_bind_group.group.material =
                      render_assets.example_models.meshes[draw.mesh].material_id
                /\ \A j \in DOMAIN bind_1s :
                      j # draw.mesh => draw.set_bind_group.group # bind_1s[j]

C14_Witness ==
    /\ pc = "present"
    /\ Len(render_assets.example_models.meshes) >= 2
    /\ \E pass \in SubmittedPasses("Models Render Pass") :
          \E d \in DOMAIN pass.draws : pass.draws[d].mesh = 1

\* the thread::sleep calls of the current handler, in order
Sleeps == SelectSeq(log, LAMBDA e : e.op = "sleep")

\* the frame was submitted and the frame pacing has run; the clock stands at
\* the time of the present call
FramePaced ==
    /\ event.kind = "RedrawRequested"
    /\ pc \in {"fps", "present", "return"}
    /\ Count(log, "submit") > 0

\* C15: for every presented frame the time from the frame start to the present
\* call is at least min_frame_time: a frame whose time up to the end of the
\* submission is below min_frame_time sleeps once, for exactly the remainder,
\* and a frame whose time is not below it does not sleep.
C15_FramePacing ==
    FramePaced =>
        LET elapsed == now - frame_start_instant
            min_frame_time == engine_config.min_frame_time
        IN  /\ elapsed >= min_frame_time
            /\ Len(Sleeps) <= 1
            /\ Len(Sleeps) = 1 =>
                  /\ Sleeps[1].res > 0
                  /\ elapsed - Sleeps[1].res < min_frame_time
                  /\ Sleeps[1].res = min_frame_time - (elapsed - Sleeps[1].res)
            /\ Len(Sleeps) = 0 => Count(log, "sleep") = 0

C15_Witness ==
    /\ Count(log, "present") = 1
    /\ event.kind = "RedrawRequested"
    /\ pc = "return"
    /\ Len(Sleeps) = 1
    /\ Sleeps[1].res = 1
    /\ now - frame_start_instant = engine_config.min_frame_time

\* ------------------------------------------------- FpsCounter on its own
\* the variables no step of the FPS counter touches
frame_vars ==
    <<config_file, config_result, engine_config, render_layouts, render_bindings,
      bindings_current, render_context, render_assets, frame_start_instant,
      redraw_pending, exit_requested, panicked, pc, ret, surface_output,
      command_queue, log, event>>

\* a fresh counter in a loaded program
InitFps == Init /\ render_context.surface_size = PhysicalSize(1, 1)

\* fps_counter.step(frame_time) with any frame time, at the current instant
FpsStep ==
    /\ fps_counter.frame_count < MaxSamples
    /\ \E frame_time \in 0..MaxFrameTime :
          LET r == FpsCounterStep(fps_counter, frame_time, now)
          IN  /\ fps_counter' = r.self
              /\ fps_output' = r.output
              /\ fps_samples' = Sampled(fps_samples, fps_output, frame_time, now)
    /\ UNCHANGED <<now, frame_vars>>

\* the clock advances between two steps
FpsClockTick ==
    /\ now < MaxFpsClock
    /\ now' = now + 1
    /\ UNCHANGED <<fps_counter, fps_samples, fps_output, frame_vars>>

NextFps == FpsStep \/ FpsClockTick

SpecFps == InitFps /\ [][NextFps]_vars

RECURSIVE SumFrameTimes(_)
SumFrameTimes(samples) ==
    IF samples = <<>> THEN 0
    ELSE samples[1].frame_time + SumFrameTimes(Tail(samples))

\* C16: the k samples fed to FpsCounter::step over a one-second window yield
\* exactly one report, on the first step made one second or more after the
\* start of the window: its frame count is k, its mean frame time is the sum
\* of the k samples divided by k, and frame_count and frame_time_total are
\* zero right after it; the steps before it report nothing and accumulate.
C16_OneReportPerWindow ==
    LET k == Len(fps_samples)
    IN  /\ fps_output # <<>> =>
              /\ k >= 1
              /\ fps_output[1] = k
              /\ fps_output[2] = SumFrameTimes(fps_samples) \div k
              /\ fps_counter.frame_count = 0
              /\ fps_counter.frame_time_total = 0
              /\ fps_samples[k].at >= fps_counter.next_output_time
              /\ \A i \in 1..(k - 1) : fps_samples[i].at < fps_counter.next_output_time
        /\ fps_output = <<>> =>
              /\ fps_counter.frame_count = k
              /\ fps_counter.frame_time_total = SumFrameTimes(fps_samples)
              /\ \A i \in 1..k : fps_samples[i].at < fps_counter.next_output_time + TicksPerSecond

C16_Witness ==
    /\ fps_output = <<3, 1>>
    /\ Len(fps_samples) = 3
    /\ fps_samples[1].frame_time = 2
    /\ fps_samples[2].frame_time = 0
    /\ fps_samples[3].frame_time = 2
    /\ fps_counter.next_output_time = 2 * TicksPerSecond

\* ------------------------------------------- load_engine_config on its own
\* what an entry of 'engine config.hjson' can hold
EntryValues(key) ==
    CASE key = "config_version" ->
            {Missing, StrValue("bogus"), IntValue(-1), IntValue(0), IntValue(1), IntValue(2)}
      [] key = "rendering_backend" ->
            {Missing, IntValue(1), StrValue("bogus")}
            \cup {StrValue(str) : str \in {"auto", "vulkan", "Vulkan", "dx12", "metal", "opengl"}}
      [] key = "present_mode" ->
            {Missing, BoolValue(TRUE), StrValue("bogus")}
            \cup {StrValue(str) : str \in {"auto_vsync", "auto_no_vsync", "Auto_No_Vsync", "fifo",
                                           "FIFO", "fifo_relaxed", "immediate", "mailbox"}}
      [] key = "desired_frame_latency" ->
            {Missing, StrValue("bogus"), FloatValue(1), IntValue(-1), IntValue(1), IntValue(2)}
      [] key = "min_frame_time" ->
            {Missing, StrValue("bogus"), FloatValue(-1), FloatValue(0), FloatValue(1), IntValue(1)}
      [] key = "shadowmap_size" ->
            {Missing, StrValue("bogus"), IntValue(-1), IntValue(512), IntValue(1024)}
      [] key = "compress_textures" ->
            {Missing, StrValue("bogus"), BoolValue(FALSE), BoolValue(TRUE)}

AllEntryValues == UNION {EntryValues(key) : key \in Keys}

\* the decodable files that differ from the default one in the entries changed
FilesChanging(changed) ==
    {[readable |-> TRUE, decodable |-> TRUE,
      entries |-> [key \in Keys |-> IF key \in changed THEN values[key]
                                    ELSE DefaultEngineConfigFile.entries[key]]] :
        values \in {v \in [changed -> AllEntryValues] : \A key \in changed : v[key] \in EntryValues(key)}}

\* the files load_engine_config is given: decodable ones, one that cannot be
\* read and one that cannot be decoded
ConfigFiles ==
    UNION {FilesChanging(changed) :
              changed \in {c \in SUBSET Keys : Cardinality(c) <= MaxChanged}}
    \cup {[readable |-> FALSE, decodable |-> FALSE, entries |-> DefaultEngineConfigFile.entries],
          [readable |-> TRUE, decodable |-> FALSE, entries |-> DefaultEngineConfigFile.entries]}

\* the variables load_engine_config does not touch
loaded_vars ==
    <<config_file, fps_samples, fps_output, render_layouts, render_bindings, bindings_current,
      render_context, render_assets, fps_counter, frame_start_instant, now, redraw_pending,
      exit_requested, pc, ret, surface_output, command_queue, log, event>>

\* the program is about to load some configuration file
InitConfig ==
    /\ config_file \in ConfigFiles
    /\ config_result = NotLoaded
    /\ engine_config = load_engine_config(DefaultEngineConfigFile).config
    /\ render_context = LoadRenderContextData(PhysicalSize(1, 1))
    /\ render_assets = LoadRenderAssets(render_context, MaxMeshes)
    /\ render_layouts = LoadRenderLayouts
    /\ render_bindings = LoadRenderBindings(render_assets)
    /\ bindings_current = TRUE
    /\ fps_counter = FpsCounterNew(0)
    /\ fps_samples = <<>>
    /\ fps_output = <<>>
    /\ frame_start_instant = 0
    /\ now = 0
    /\ redraw_pending = TRUE
    /\ exit_requested = FALSE
    /\ panicked = FALSE
    /\ pc = "idle"
    /\ ret = Pending
    /\ surface_output = "None"
    /\ command_queue = <<>>
    /\ log = <<>>
    /\ event = [kind |-> "None", size |-> NoSize, before |-> Snapshot]

\* the call of load_engine_config in load_program_data
LoadEngineConfig ==
    /\ config_result = NotLoaded
    /\ config_result' = load_engine_config(config_file)
    /\ engine_config' = IF config_result'.tag = "Ok" THEN config_result'.config ELSE engine_config
    /\ panicked' = (config_result'.tag = "Panic")
    /\ UNCHANGED loaded_vars

NextConfig == LoadEngineConfig

SpecConfig == InitConfig /\ [][NextConfig]_vars

\* the entry is missing, of the wrong type, unrecognized or out of range
IsBadEntry(key, value) ==
    CASE key = "config_version" ->
            value.type # "int" \/ value.n < 1 \/ value.n > LATEST_CONFIG_VERSION
      [] key = "rendering_backend" ->
            value.type # "str"
            \/ to_lowercase(value.s) \notin {"auto", "vulkan", "dx12", "metal", "opengl"}
      [] key = "present_mode" ->
            value.type # "str"
            \/ to_lowercase(value.s) \notin {"auto_vsync", "auto_no_vsync", "fifo", "fifo_relaxed",
                                            "immediate", "mailbox"}
      [] key = "desired_frame_latency" -> value.type # "int" \/ value.n < 1
      [] key = "min_frame_time" -> value.type \notin {"int", "float"} \/ value.n < 0
      [] key = "shadowmap_size" -> value.type # "int" \/ value.n < 1
      [] key = "compress_textures" -> value.type # "bool"

\* the configuration of the documented defaults
DefaultEngineConfig ==
    [rendering_backend |-> "all",
     present_mode |-> "AutoVsync",
     desired_frame_latency |-> <<0, 1>>,
     min_frame_time |-> MinFrameTime,
     shadowmap_size |-> <<0, 512>>,
     compress_textures |-> TRUE]

\* C17: for every decodable configuration file, whatever entries are missing,
\* of the wrong type, unrecognized or out of range, load_engine_config
\* returns a configuration in which each bad entry has its default; it
\* neither returns an error nor panics.
C17_BadEntriesFallBackToDefaults ==
    (config_result.tag # "None" /\ config_file.readable /\ config_file.decodable) =>
        /\ config_result.tag = "Ok"
        /\ ~panicked
        /\ \A key \in Keys \ {"config_version"} :
              IsBadEntry(key, config_file.entries[key]) =>
                  config_result.config[key] = DefaultEngineConfig[key]

\* the current or last handler resized the surface to a non-zero size
ResizedNonZero == event.kind \in {"Resized", "RedrawRequested"} /\ Len(Configures) > 0

\* the depth buffers the current handler asked for, in order
DepthLoads == SelectSeq(log, LAMBDA e : e.op = "load_depth_render_data")

\* C18: a resize of the surface to non-zero dimensions replaces the depth
\* buffer and its view and nothing else: the camera, shadow-caster, model,
\* material, sampler and skybox assets, the layouts and pipelines, the binding
\* sets and the engine configuration are what they were before the handler.
C18_ResizeReplacesOnlyDepth ==
    ResizedNonZero =>
        LET before == event.before.program_data
        IN  /\ engine_config = before.engine_config
            /\ render_layouts = before.render_layouts
            /\ render_bindings = before.render_bindings
            /\ render_assets.camera = before.render_assets.camera
            /\ render_assets.default_sampler = before.render_assets.default_sampler
            /\ render_assets.materials_storage = before.render_assets.materials_storage
            /\ render_assets.shadow_caster = before.render_assets.shadow_caster
            /\ render_assets.example_models = before.render_assets.example_models
            /\ render_assets.skybox_material_id = before.render_assets.skybox_material_id
            /\ render_assets.skybox_sampler = before.render_assets.skybox_sampler
            /\ Len(DepthLoads) = 1
            /\ DepthLoads[1].res = "Ok" => render_assets.depth.view = Configures[1].size
            /\ DepthLoads[1].res = "Err" => render_assets.depth = before.render_assets.depth

C18_Witness ==
    /\ ResizeHandled
    /\ event.size = PhysicalSize(MaxDim, 1)
    /\ event.before.depth.view = PhysicalSize(1, 1)
    /\ render_assets.depth.view = PhysicalSize(MaxDim, 1)
    /\ DepthLoads = <<Ev("load_depth_render_data", "Ok", PhysicalSize(MaxDim, 1))>>

\* a creation of the depth buffer failed in the handler that has just ended
ResizeFailed == pc = "idle" /\ \E i \in DOMAIN DepthLoads : DepthLoads[i].res = "Err"

\* C19: a failure to recreate the depth buffer during resize ends the render
\* loop cleanly on every path that calls resize, the Resized event and the
\* lost/outdated recovery of a redraw: the loop exit is requested, the
\* process does not panic, and no frame is presented.
C19_ResizeFailureExitsCleanly ==
    ResizeFailed =>
        /\ exit_requested
        /\ ~panicked
        /\ Count(log, "present") = 0

\* the redraw has a swapchain texture, or is about to ask for one
AcquiresTexture ==
    \/ pc \in {"acquire", "retry"}
    \/ surface_output = "Acquired"
    \/ (event.kind = "RedrawRequested" /\ AcquiredFrame)

\* C20: whenever redraw_requested acquires a swapchain texture, the size last
\* applied to the surface by configure is the current surface_size and the
\* stored surface_config, and no dimension of it is zero, whatever resize
\* events, zero-size ones included, and redraw requests came before.
C20_AcquireSeesConfiguredSize ==
    AcquiresTexture =>
        /\ render_context.drawable_surface.config = render_context.surface_size
        /\ render_context.surface_config = render_context.surface_size
        /\ ~IsZeroSize(render_context.surface_size)
        /\ Len(Configures) > 0 => Configures[Len(Configures)].size = render_context.surface_size

C20_Witness ==
    /\ surface_output = "Acquired"
    /\ pc = "render"
    /\ Len(Acquires) = 2
    /\ Configures = <<Ev("configure", "Ok", PhysicalSize(MaxDim, 1))>>
    /\ render_context.drawable_surface.config = PhysicalSize(MaxDim, 1)
    /\ now > 0

\* the whole seconds the clock is ahead of the deadline base of the counter
SecondsBehind(counter) == (now - counter.next_output_time) \div TicksPerSecond

\* one call of fps_counter.step: what it does to the deadline
StepAdvancesDeadline ==
    LET k == SecondsBehind(fps_counter)
        reports == fps_output' # <<>>
    IN  /\ reports <=> k >= 1
        /\ reports => fps_counter'.next_output_time = fps_counter.next_output_time + TicksPerSecond
        /\ ~reports => fps_counter'.next_output_time = fps_counter.next_output_time
        /\ (reports /\ k >= 1) => SecondsBehind(fps_counter)' = k - 1
        /\ (reports /\ fps_output # <<>>) => fps_output'[1] = 1

\* C21: FpsCounter::step moves its deadline on by exactly one second per
\* report and never sets it from the current time; a call reports at most
\* once; when the clock is k whole seconds past the deadline base, the call
\* reports and leaves the clock k - 1 seconds past it, so that the next k
\* calls each report, every one after the first with a frame count of 1.
C21_DeadlineAdvancesOneSecondPerReport ==
    [][fps_counter' # fps_counter => StepAdvancesDeadline]_vars

C21_Witness ==
    /\ fps_output # <<>>
    /\ fps_output[1] = 1
    /\ Len(fps_samples) = 1
    /\ fps_samples[1].at = now
    /\ fps_counter.next_output_time = TicksPerSecond
    /\ SecondsBehind(fps_counter) >= 1

\* the present_mode strings load_engine_config recognizes
RecognizedPresentModes ==
    {"auto_vsync", "auto_no_vsync", "fifo", "fifo_relaxed", "immediate", "mailbox"}

\* the wgpu::PresentMode a recognized string names
NamedPresentMode(str) ==
    CASE str = "auto_vsync" -> "AutoVsync"
      [] str = "auto_no_vsync" -> "AutoNoVsync"
      [] str = "fifo" -> "Fifo"
      [] str = "fifo_relaxed" -> "FifoRelaxed"
      [] str = "immediate" -> "Immediate"
      [] str = "mailbox" -> "Mailbox"

\* C22: load_engine_config resolves each of the six recognized present_mode
\* strings, whatever their case, to the presentation mode it names, which no
\* other recognized string resolves to; any other entry resolves to the
\* auto-vsync default.
C22_PresentModesDistinct ==
    config_result.tag = "Ok" =>
        LET entry == config_file.entries["present_mode"]
            resolved == config_result.config.present_mode
        IN  IF entry.type = "str" /\ to_lowercase(entry.s) \in RecognizedPresentModes
            THEN /\ resolved = NamedPresentMode(to_lowercase(entry.s))
                 /\ \A other \in RecognizedPresentModes \ {to_lowercase(entry.s)} :
                       PresentModeOf(other) # resolved
            ELSE resolved = "AutoVsync"

====
